---- MODULE Spec2Model ----
(***************************************************************************)
(* Model of src/app.py: the Flask handler of POST /api/outfit-recommendation *)
(* with its rule-based recommender and its Unsplash image adapter.          *)
(*                                                                         *)
(* One request is handled at a time (the handler is synchronous); pc is    *)
(* the handler's position.  Python values are held as follows:             *)
(*   - a dict is a function from its keys;                                 *)
(*   - an optional value (None or a value) is a sequence of length 0 or 1, *)
(*     so that Python's None and the string 'None' stay distinct;          *)
(*   - a temperature or a wind speed is an integer number of HALF degrees  *)
(*     (half mph), so that 49.5 and 75.5 exist and round() rounds;         *)
(*   - outfit['top'], on which the code does a substring replace, is a     *)
(*     sequence of words, rendered by Str.                                 *)
(***************************************************************************)
EXTENDS Integers, Sequences, FiniteSets, TLC

VARIABLES
    unsplashKey,    \* UNSPLASH_ACCESS_KEY is set (app.py:21)
    pc,             \* position of the handler
    body,           \* the request body being handled
    location,       \* data['location']
    preferences,    \* preferences dict (app.py:224)
    weather_data,   \* weather_response.json(), as an optional value
    weather_info,   \* weather summary (app.py:247), as an optional value
    outfit,         \* outfit dict of get_outfit_recommendation
    color_palette,  \* chosen palette
    style_tips,     \* generate_style_tips result
    search_queries, \* search_queries dict of get_outfit_images
    images,         \* images dict of get_outfit_images
    idx,            \* position of the loop over search_queries.items()
    response,       \* (status, body) returned by the handler, optional
    weatherCalls,   \* outbound calls to OpenWeather made for this request
    weatherResult,  \* how the weather call of this request ended
    lookups,        \* slots for which search_unsplash_image was invoked
    outbound,       \* queries sent to Unsplash for this request
    imgResult,      \* per invoked slot: the photo search gave a result
    seen,           \* recommendations recorded for earlier requests
    recorded        \* the request being handled is one of those

vars == <<unsplashKey, pc, body, location, preferences, weather_data,
          weather_info, outfit, color_palette, style_tips, search_queries,
          images, idx, response, weatherCalls, lookups, outbound, imgResult,
          weatherResult, seen, recorded>>

-----------------------------------------------------------------------------
\* Bounds of the model

\* how many earlier requests are remembered for comparison with later ones
MaxSeen == 1

-----------------------------------------------------------------------------
\* Python helpers

None == <<>>
Some(v) == <<v>>

EmptyDict == [k \in {} |-> ""]

\* d.get(k, default)
Get(d, k, default) == IF k \in DOMAIN d THEN d[k] ELSE default

\* one optional key of a JSON object
Field(k, opt) == IF opt = None THEN EmptyDict ELSE (k :> opt[1])

\* bool(data) for the JSON values get_json can return
Truthy(d) ==
    CASE d.type = "dict" -> DOMAIN d.val # {}
      [] d.type = "NoneType" -> FALSE
      [] d.type = "int" -> d.val # 0
      [] d.type = "list" -> d.val # <<>>

\* whether `k in data` raises TypeError (int is not iterable)
InRaises(d) == d.type = "int"

\* k in data, for the types on which it is defined
In(k, d) ==
    CASE d.type = "dict" -> k \in DOMAIN d.val
      [] d.type = "list" -> \E i \in 1..Len(d.val) : d.val[i] = k
      [] OTHER -> FALSE

\* round(x) of Python 3 on a number of halves: ties go to the even integer
PyRound(h) ==
    IF h % 2 = 0 THEN h \div 2
    ELSE LET f == (h - 1) \div 2 IN IF f % 2 = 0 THEN f ELSE f + 1

\* temp < n, temp > n for temp in halves and n a whole number of degrees
Below(h, n) == h < 2 * n
Above(h, n) == h > 2 * n

RECURSIVE Join(_, _)
\* sep.join(ws)
Join(ws, sep) ==
    IF ws = <<>> THEN ""
    ELSE IF Len(ws) = 1 THEN ws[1]
    ELSE ws[1] \o sep \o Join(Tail(ws), sep)

\* a word sequence as the string it stands for
Str(ws) == Join(ws, " ")

RECURSIVE Replace(_, _, _)
\* s.replace(old, new) where old is one word and new a word sequence
Replace(ws, old, new) ==
    IF ws = <<>> THEN <<>>
    ELSE (IF Head(ws) = old THEN new ELSE <<Head(ws)>>)
         \o Replace(Tail(ws), old, new)

-----------------------------------------------------------------------------
\* get_outfit_recommendation

\* outfit before the rule passes
NewOutfit ==
    [top |-> <<>>, bottom |-> "", outerwear |-> "", footwear |-> "",
     accessories |-> <<>>]

\* Tier with every boundary given to the lower tier
TierInclusive(temp) ==
    IF temp <= 2 * 50 THEN "cold"
    ELSE IF temp <= 2 * 65 THEN "cool"
    ELSE IF temp <= 2 * 75 THEN "mild"
    ELSE IF temp <= 2 * 85 THEN "warm"
    ELSE "hot"

\* temperature tier of temp
Tier(temp) ==
    IF Below(temp, 50) THEN "cold"
    ELSE IF Below(temp, 65) THEN "cool"
    ELSE IF Below(temp, 75) THEN "mild"
    ELSE IF Below(temp, 85) THEN "warm"
    ELSE "hot"

\* base outfit of each tier
TierOutfit(tier) ==
    CASE tier = "cold" ->
           [top |-> <<"Thermal", "long-sleeve", "shirt", "or", "sweater">>,
            bottom |-> "Jeans or warm pants",
            outerwear |-> "Heavy coat or parka",
            footwear |-> "Boots",
            accessories |-> <<"Scarf", "Gloves", "Beanie">>]
      [] tier = "cool" ->
           [top |-> <<"Long-sleeve", "shirt", "or", "light", "sweater">>,
            bottom |-> "Chinos or jeans",
            outerwear |-> "Light jacket or cardigan",
            footwear |-> "Sneakers or loafers",
            accessories |-> <<"Light scarf">>]
      [] tier = "mild" ->
           [top |-> <<"T-shirt", "or", "button-down", "shirt">>,
            bottom |-> "Chinos or casual pants",
            outerwear |-> "Optional light jacket",
            footwear |-> "Sneakers or casual shoes",
            accessories |-> <<"Sunglasses">>]
      [] tier = "warm" ->
           [top |-> <<"Breathable", "t-shirt", "or", "polo">>,
            bottom |-> "Shorts or light pants",
            outerwear |-> "None needed",
            footwear |-> "Sandals or canvas shoes",
            accessories |-> <<"Sunglasses", "Hat">>]
      [] tier = "hot" ->
           [top |-> <<"Light,", "breathable", "tank", "or", "t-shirt">>,
            bottom |-> "Shorts",
            outerwear |-> "None",
            footwear |-> "Sandals",
            accessories |-> <<"Sunglasses", "Sun hat", "Sunscreen">>]

\* the temperature pass: every field of the outfit is assigned
BaseOutfit(o, temp) == TierOutfit(Tier(temp))

WetConditions == {"Rain", "Drizzle", "Thunderstorm"}

\* ConditionAdjust without Thunderstorm among the wet conditions
ConditionAdjustNoThunder(o, condition) ==
    IF condition \in {"Rain", "Drizzle"} THEN
        [o EXCEPT !.outerwear = "Waterproof jacket or raincoat",
                  !.accessories = Append(@, "Umbrella"),
                  !.footwear = "Waterproof boots or shoes"]
    ELSE IF condition = "Snow" THEN
        [o EXCEPT !.outerwear = "Insulated winter coat",
                  !.accessories = @ \o <<"Warm hat", "Gloves", "Scarf">>,
                  !.footwear = "Winter boots"]
    ELSE o

\* ConditionAdjust assigning the snow accessories instead of extending
ConditionAdjustReplaces(o, condition) ==
    IF condition \in WetConditions THEN
        [o EXCEPT !.outerwear = "Waterproof jacket or raincoat",
                  !.accessories = Append(@, "Umbrella"),
                  !.footwear = "Waterproof boots or shoes"]
    ELSE IF condition = "Snow" THEN
        [o EXCEPT !.outerwear = "Insulated winter coat",
                  !.accessories = <<"Warm hat", "Gloves", "Scarf">>,
                  !.footwear = "Winter boots"]
    ELSE o

\* the weather condition pass
ConditionAdjust(o, condition) ==
    IF condition \in WetConditions THEN
        [o EXCEPT !.outerwear = "Waterproof jacket or raincoat",
                  !.accessories = Append(@, "Umbrella"),
                  !.footwear = "Waterproof boots or shoes"]
    ELSE IF condition = "Snow" THEN
        [o EXCEPT !.outerwear = "Insulated winter coat",
                  !.accessories = @ \o <<"Warm hat", "Gloves", "Scarf">>,
                  !.footwear = "Winter boots"]
    ELSE o

\* MoodAdjust leaving footwear alone once the weather has chosen it
MoodAdjustKeepsWeather(o, mood) ==
    LET weatherShoes == o.footwear \in {"Waterproof boots or shoes", "Winter boots"}
    IN
    IF mood = "professional" THEN
        [o EXCEPT !.top = Replace(Replace(@, "t-shirt", <<"dress", "shirt">>),
                                  "T-shirt", <<"Button-down", "shirt">>),
                  !.bottom = "Dress pants or skirt",
                  !.footwear = IF weatherShoes THEN @ ELSE "Dress shoes or heels"]
    ELSE IF mood = "adventurous" THEN
        [o EXCEPT !.footwear = IF weatherShoes THEN @
                               ELSE "Hiking boots or athletic shoes",
                  !.accessories = Append(@, "Backpack")]
    ELSE IF mood = "cozy" THEN
        [o EXCEPT !.top = <<"Soft", "sweater", "or", "hoodie">>,
                  !.accessories = Append(@, "Comfort scarf")]
    ELSE o

\* the mood pass
MoodAdjust(o, mood) ==
    IF mood = "professional" THEN
        [o EXCEPT !.top = Replace(Replace(@, "t-shirt", <<"dress", "shirt">>),
                                  "T-shirt", <<"Button-down", "shirt">>),
                  !.bottom = "Dress pants or skirt",
                  !.footwear = "Dress shoes or heels"]
    ELSE IF mood = "adventurous" THEN
        [o EXCEPT !.footwear = "Hiking boots or athletic shoes",
                  !.accessories = Append(@, "Backpack")]
    ELSE IF mood = "cozy" THEN
        [o EXCEPT !.top = <<"Soft", "sweater", "or", "hoodie">>,
                  !.accessories = Append(@, "Comfort scarf")]
    ELSE o

color_palettes ==
    [neutral |-> <<"Navy", "Beige", "White", "Gray">>,
     warm |-> <<"Burgundy", "Mustard", "Rust", "Cream">>,
     cool |-> <<"Navy", "Teal", "Silver", "Ice Blue">>,
     vibrant |-> <<"Red", "Emerald", "Royal Blue", "Yellow">>]

\* color_palettes.get(color_pref, color_palettes['neutral'])
Palette(color_pref) == Get(color_palettes, color_pref, color_palettes["neutral"])

LayerTip == "Layer your clothing for temperature flexibility"
WaterTip == "Choose water-resistant fabrics"
BreathTip == "Opt for breathable, moisture-wicking materials"
PolishTip == "Keep accessories minimal and polished"
FallbackTip == "Dress comfortably and confidently!"

\* Tips with the breathable tip from 75 degrees on
TipsInclusive(temp, condition, mood) ==
    (IF Below(temp, 65) THEN <<LayerTip>> ELSE <<>>)
    \o (IF condition \in {"Rain", "Drizzle"} THEN <<WaterTip>> ELSE <<>>)
    \o (IF temp >= 2 * 75 THEN <<BreathTip>> ELSE <<>>)
    \o (IF mood = "professional" THEN <<PolishTip>> ELSE <<>>)

\* the tips list of generate_style_tips, in the order of its appends
Tips(temp, condition, mood) ==
    (IF Below(temp, 65) THEN <<LayerTip>> ELSE <<>>)
    \o (IF condition \in {"Rain", "Drizzle"} THEN <<WaterTip>> ELSE <<>>)
    \o (IF Above(temp, 75) THEN <<BreathTip>> ELSE <<>>)
    \o (IF mood = "professional" THEN <<PolishTip>> ELSE <<>>)

generate_style_tips(temp, condition, mood) ==
    LET tips == Tips(temp, condition, mood)
    IN  IF tips # <<>> THEN Join(tips, " | ") ELSE FallbackTip

\* the outfit as the response carries it: top is a string again
Rendered(o) == [o EXCEPT !.top = Str(@)]

-----------------------------------------------------------------------------
\* Requests and upstream answers

Moods == {"casual", "professional", "adventurous", "cozy", "sporty"}
Colors == {"neutral", "vibrant", "pastel"}

Opt(S) == {None} \cup {Some(v) : v \in S}

\* a JSON object with the keys that are given
Object(l, m, s, c) ==
    Field("location", l) @@ Field("mood", m) @@ Field("style_preference", s)
        @@ Field("color_preference", c)

JsonObjects ==
    {Object(Some("Chicago"), m, None, c) : m \in Opt(Moods), c \in Opt(Colors)}
    \cup {Object(Some("Chicago"), None, Some("streetwear"), None)}
    \cup {Object(None, m, None, None) : m \in Opt({"cozy"})}

\* JSON values that are no object
JsonOthers ==
    {[type |-> "NoneType"],
     [type |-> "int", val |-> 0],
     [type |-> "int", val |-> 5],
     [type |-> "list", val |-> <<>>],
     [type |-> "list", val |-> <<"location">>]}

\* request bodies: a JSON value, or no JSON body at all
Bodies ==
    {[json |-> TRUE, data |-> [type |-> "dict", val |-> o]] : o \in JsonObjects}
    \cup {[json |-> TRUE, data |-> d] : d \in JsonOthers}
    \cup {[json |-> FALSE]}

\* temperatures and wind speeds of the weather service, in halves
Temps == {60, 99, 100, 129, 130, 140, 149, 150, 151, 169, 170}
Conditions == {"Clear", "Rain", "Drizzle", "Thunderstorm", "Snow"}
Winds == {5}

Payloads ==
    {[main |-> [temp |-> t, humidity |-> 40],
      weather |-> <<[main |-> c, description |-> "as reported"]>>,
      wind |-> [speed |-> w]] : t \in Temps, c \in Conditions, w \in Winds}

\* what requests.get on the weather service can do
WeatherOutcomes ==
    {[kind |-> "network"], [kind |-> "badpayload"]}
    \cup {[kind |-> "status", code |-> n] : n \in {401, 404}}
    \cup {[kind |-> "ok", json |-> p] : p \in Payloads}

\* what requests.get on the photo search can do
ImageOutcomes == {"ok", "non200", "empty", "exception"}

-----------------------------------------------------------------------------
\* The handler outfit_recommendation

Slots == <<"top", "bottom", "outerwear", "footwear", "outfit_complete">>

Reply(status, b) == Some([status |-> status, body |-> b])
Error(status, msg) == Reply(status, [error |-> msg])

\* request.get_json(): the parsed body.  Without a JSON body it returns None
\* or raises an HTTP error, depending on the Flask release installed.
GetJson(b) ==
    IF b.json THEN {[raised |-> FALSE, data |-> b.data]}
    ELSE {[raised |-> FALSE, data |-> [type |-> "NoneType"]],
          [raised |-> TRUE, msg |-> "415 Unsupported Media Type"]}

\* Preferences with the missing keys taken from a dict that outlives the
\* request
PreferencesSticky(d) ==
    [mood |-> Get(d, "mood", Get(preferences, "mood", "casual")),
     style_preference |->
        Get(d, "style_preference", Get(preferences, "style_preference", "casual")),
     color_preference |->
        Get(d, "color_preference", Get(preferences, "color_preference", "neutral"))]

\* the preferences dict with its defaults
Preferences(d) ==
    [mood |-> Get(d, "mood", "casual"),
     style_preference |-> Get(d, "style_preference", "casual"),
     color_preference |-> Get(d, "color_preference", "neutral")]

\* what parsing and validation end in: an error reply, or the location and
\* the preferences
Validate(j) ==
    IF j.raised THEN [reply |-> Error(500, "An error occurred: " \o j.msg)]
    ELSE IF ~Truthy(j.data) THEN [reply |-> Error(400, "Location is required")]
    ELSE IF InRaises(j.data) THEN
        [reply |-> Error(500,
            "An error occurred: argument of type 'int' is not iterable")]
    ELSE IF ~In("location", j.data) THEN
        [reply |-> Error(400, "Location is required")]
    ELSE IF j.data.type # "dict" THEN
        [reply |-> Error(500,
            "An error occurred: list indices must be integers or slices, not str")]
    ELSE [reply |-> None, location |-> j.data.val["location"],
          preferences |-> Preferences(j.data.val)]

\* weather_info of a weather payload
WeatherInfo(w) ==
    [temperature |-> PyRound(w.main.temp),
     condition |-> w.weather[1].main,
     description |-> w.weather[1].description,
     humidity |-> w.main.humidity,
     wind_speed |-> PyRound(w.wind.speed)]

\* WeatherFailure with the general except clause taking the network failure
WeatherFailureGeneral(o) ==
    CASE o.kind = "status" ->
           Error(400, "Unable to fetch weather data. Please check the location.")
      [] o.kind = "network" -> Error(500, "An error occurred: connection failed")
      [] o.kind = "badpayload" -> Error(500, "An error occurred: 'main'")

\* the reply of the handler when the weather call did not give a payload
WeatherFailure(o) ==
    CASE o.kind = "status" ->
           Error(400, "Unable to fetch weather data. Please check the location.")
      [] o.kind = "network" -> Error(503, "Failed to connect to weather service")
      [] o.kind = "badpayload" -> Error(500, "An error occurred: 'main'")

\* search_queries of get_outfit_images
SearchQueries(o) ==
    [top |-> Some(Str(o.top) \o " fashion flatlay"),
     bottom |-> Some(o.bottom \o " fashion flatlay"),
     outerwear |-> IF o.outerwear # "" /\ o.outerwear # "None needed"
                   THEN Some(o.outerwear \o " fashion flatlay") ELSE None,
     footwear |-> Some(o.footwear \o " fashion flatlay"),
     outfit_complete |-> Some("complete outfit flatlay fashion minimal aesthetic")]

\* the record search_unsplash_image builds from the first result
ImageData(q) ==
    [url |-> "regular", thumb |-> "small", photographer |-> "name",
     photographer_url |-> "html"]

\* ImageResult without the check of the status code
ImageResultUnchecked(r, q) ==
    IF r \in {"ok", "non200"} THEN Some(ImageData(q)) ELSE None

\* what search_unsplash_image returns after its call of the photo search
ImageResult(r, q) == IF r = "ok" THEN Some(ImageData(q)) ELSE None

\* a new call frame: no local of an earlier request is left
Frame ==
    /\ weather_data' = None
    /\ weather_info' = None
    /\ outfit' = NewOutfit
    /\ color_palette' = <<>>
    /\ style_tips' = ""
    /\ search_queries' = EmptyDict
    /\ images' = EmptyDict
    /\ idx' = 0
    /\ weatherCalls' = 0
    /\ lookups' = <<>>
    /\ outbound' = <<>>
    /\ imgResult' = EmptyDict
    /\ weatherResult' = "none"
    /\ recorded' = FALSE

Init ==
    /\ unsplashKey \in BOOLEAN
    /\ pc = "idle"
    /\ body = [json |-> FALSE]
    /\ location = ""
    /\ preferences = EmptyDict
    /\ weather_data = None
    /\ weather_info = None
    /\ outfit = NewOutfit
    /\ color_palette = <<>>
    /\ style_tips = ""
    /\ search_queries = EmptyDict
    /\ images = EmptyDict
    /\ idx = 0
    /\ response = None
    /\ weatherCalls = 0
    /\ lookups = <<>>
    /\ outbound = <<>>
    /\ imgResult = EmptyDict
    /\ weatherResult = "none"
    /\ seen = {}
    /\ recorded = FALSE

\* a request arrives: parse the body, validate it, fill the preferences
Receive(B) ==
    /\ pc \in {"idle", "done"}
    /\ \E b \in B : \E j \in GetJson(b) :
        LET v == Validate(j) IN
        /\ body' = b
        /\ IF v.reply # None
           THEN /\ response' = v.reply
                /\ pc' = "done"
                /\ location' = ""
                /\ preferences' = EmptyDict
           ELSE /\ response' = None
                /\ pc' = "weather"
                /\ location' = v.location
                /\ preferences' = v.preferences
    /\ Frame
    /\ UNCHANGED <<unsplashKey, seen>>

\* the call of the weather service and what the handler makes of its answer
FetchWeather(W) ==
    /\ pc = "weather"
    /\ weatherCalls' = weatherCalls + 1
    /\ \E o \in W :
        /\ weatherResult' = o.kind
        /\ IF o.kind = "ok"
           THEN /\ weather_data' = Some(o.json)
                /\ weather_info' = Some(WeatherInfo(o.json))
                /\ pc' = "tier"
                /\ UNCHANGED response
           ELSE /\ response' = WeatherFailure(o)
                /\ pc' = "done"
                /\ UNCHANGED <<weather_data, weather_info>>
    /\ UNCHANGED <<unsplashKey, body, location, preferences, outfit,
                   color_palette, style_tips, search_queries, images, idx,
                   lookups, outbound, imgResult, seen, recorded>>

temp == weather_data[1].main.temp
condition == weather_data[1].weather[1].main
mood == Get(preferences, "mood", "casual")
color_pref == Get(preferences, "color_preference", "neutral")

Recommender(next) ==
    /\ pc' = next
    /\ UNCHANGED <<unsplashKey, body, location, preferences, weather_data,
                   weather_info, search_queries, images, idx, response,
                   weatherCalls, lookups, outbound, imgResult, weatherResult,
                   seen, recorded>>

\* get_outfit_recommendation: the outfit is created and the temperature
\* pass fills it
TierStep ==
    /\ pc = "tier"
    /\ outfit' = BaseOutfit(NewOutfit, temp)
    /\ UNCHANGED <<color_palette, style_tips>>
    /\ Recommender("condition")

ConditionStep ==
    /\ pc = "condition"
    /\ outfit' = ConditionAdjust(outfit, condition)
    /\ UNCHANGED <<color_palette, style_tips>>
    /\ Recommender("mood")

MoodStep ==
    /\ pc = "mood"
    /\ outfit' = MoodAdjust(outfit, mood)
    /\ UNCHANGED <<color_palette, style_tips>>
    /\ Recommender("palette")

\* palette, style tips and the return of the recommendation
PaletteStep ==
    /\ pc = "palette"
    /\ color_palette' = Palette(color_pref)
    /\ style_tips' = generate_style_tips(temp, condition, mood)
    /\ UNCHANGED outfit
    /\ Recommender("queries")

\* get_outfit_images up to its loop
QueriesStep ==
    /\ pc = "queries"
    /\ search_queries' = SearchQueries(outfit)
    /\ images' = EmptyDict
    /\ idx' = 1
    /\ pc' = "lookup"
    /\ UNCHANGED <<unsplashKey, body, location, preferences, weather_data,
                   weather_info, outfit, color_palette, style_tips, response,
                   weatherCalls, lookups, outbound, imgResult, weatherResult,
                   seen, recorded>>

Loop ==
    /\ idx' = idx + 1
    /\ pc' = IF idx = Len(Slots) THEN "assemble" ELSE "lookup"
    /\ UNCHANGED <<unsplashKey, body, location, preferences, weather_data,
                   weather_info, outfit, color_palette, style_tips,
                   search_queries, response, weatherCalls, weatherResult,
                   seen, recorded>>

\* one round of the loop whose query is None: nothing is looked up
SkipSlot ==
    /\ pc = "lookup"
    /\ search_queries[Slots[idx]] = None
    /\ UNCHANGED <<images, lookups, outbound, imgResult>>
    /\ Loop

\* search_unsplash_image without an access key: None, and no call is made
LookupNoKey ==
    /\ pc = "lookup"
    /\ search_queries[Slots[idx]] # None
    /\ ~unsplashKey
    /\ lookups' = Append(lookups, Slots[idx])
    /\ imgResult' = imgResult @@ (Slots[idx] :> FALSE)
    /\ UNCHANGED <<images, outbound>>
    /\ Loop

\* search_unsplash_image with a key: one call of the photo search; only a
\* 200 answer with a result gives image data, everything else gives None
LookupCall ==
    /\ pc = "lookup"
    /\ search_queries[Slots[idx]] # None
    /\ unsplashKey
    /\ LET key == Slots[idx]
           query == search_queries[key][1]
       IN  /\ lookups' = Append(lookups, key)
           /\ outbound' = Append(outbound, query)
           /\ \E r \in ImageOutcomes :
                LET image_data == ImageResult(r, query) IN
                /\ imgResult' = imgResult @@ (key :> (r = "ok"))
                /\ images' = IF image_data # None
                             THEN images @@ (key :> image_data[1])
                             ELSE images
    /\ Loop

\* the combined response
Assemble ==
    /\ pc = "assemble"
    /\ response' = Reply(200,
          [location |-> location,
           weather |-> weather_info[1],
           outfit |-> Rendered(outfit),
           outfit_images |-> images,
           color_palette |-> color_palette,
           style_tips |-> style_tips])
    /\ pc' = "done"
    /\ UNCHANGED <<unsplashKey, body, location, preferences, weather_data,
                   weather_info, outfit, color_palette, style_tips,
                   search_queries, images, idx, weatherCalls, lookups,
                   outbound, imgResult, weatherResult, seen, recorded>>

Next ==
    \/ Receive(Bodies)
    \/ FetchWeather(WeatherOutcomes)
    \/ TierStep
    \/ ConditionStep
    \/ MoodStep
    \/ PaletteStep
    \/ QueriesStep
    \/ SkipSlot
    \/ LookupNoKey
    \/ LookupCall
    \/ Assemble

Spec == Init /\ [][Next]_vars

-----------------------------------------------------------------------------
\* Requests in sequence, with earlier recommendations remembered

SeqBodies ==
    {[json |-> TRUE, data |-> [type |-> "dict", val |-> o]] :
        o \in {Object(Some("Chicago"), m, None, None) :
                m \in Opt({"cozy", "adventurous"})}}

SeqWeather ==
    {[kind |-> "network"]}
    \cup {[kind |-> "ok", json |-> p] :
            p \in {q \in Payloads : /\ q.main.temp \in {60, 150}
                                    /\ q.weather[1].main \in {"Clear", "Snow"}}}

\* what a request is made of: its body and the weather answer it got
Input == [body |-> body, weather |-> weather_data[1]]

\* what the claim of determinism is about
Rec ==
    [outfit |-> response[1].body.outfit,
     color_palette |-> response[1].body.color_palette,
     style_tips |-> response[1].body.style_tips]

Done200 == pc = "done" /\ response # None /\ response[1].status = 200

\* history: the finished request is remembered, for comparison with later ones
Remember ==
    /\ Done200
    /\ ~recorded
    /\ Cardinality(seen) < MaxSeen
    /\ \A e \in seen : e.input # Input
    /\ seen' = seen \cup {[input |-> Input, rec |-> Rec]}
    /\ recorded' = TRUE
    /\ UNCHANGED <<unsplashKey, pc, body, location, preferences, weather_data,
                   weather_info, outfit, color_palette, style_tips,
                   search_queries, images, idx, response, weatherCalls,
                   lookups, outbound, imgResult, weatherResult>>

NextSeq ==
    \/ Receive(SeqBodies)
    \/ FetchWeather(SeqWeather)
    \/ TierStep
    \/ ConditionStep
    \/ MoodStep
    \/ PaletteStep
    \/ QueriesStep
    \/ SkipSlot
    \/ LookupNoKey
    \/ LookupCall
    \/ Assemble
    \/ Remember

SpecSeq == Init /\ [][NextSeq]_vars

-----------------------------------------------------------------------------
\* Properties

HasLocationField(b) ==
    b.json /\ b.data.type = "dict" /\ "location" \in DOMAIN b.data.val

NothingComputed ==
    /\ weather_data = None
    /\ outfit = NewOutfit
    /\ color_palette = <<>>
    /\ style_tips = ""
    /\ search_queries = EmptyDict
    /\ images = EmptyDict
    /\ lookups = <<>>
    /\ outbound = <<>>

\* C1: when the weather call fails, the failure alone determines the
\* response: a non-200 answer gives 400 with the location message, a network
\* failure gives 503; the call is made once, never again, and neither a
\* recommendation nor an image lookup is made.
C1_WeatherFailureDecidesResponse ==
    /\ weatherCalls <= 1
    /\ weatherResult = "status" =>
        /\ pc = "done"
        /\ response = Error(400,
              "Unable to fetch weather data. Please check the location.")
        /\ HasLocationField(body)
        /\ weatherCalls = 1
        /\ NothingComputed
    /\ weatherResult = "network" =>
        /\ pc = "done"
        /\ response = Error(503, "Failed to connect to weather service")
        /\ HasLocationField(body)
        /\ weatherCalls = 1
        /\ NothingComputed

C1_Witness ==
    /\ pc = "done"
    /\ weatherResult = "network"
    /\ response[1].status = 503
    /\ weatherCalls = 1

\* C2: a body without a location field always gets 400 "Location is
\* required", and neither the weather service nor the photo search is called.
C2_MissingLocationRejected ==
    (pc = "done" /\ ~HasLocationField(body)) =>
        /\ response = Error(400, "Location is required")
        /\ weatherCalls = 0
        /\ lookups = <<>>
        /\ outbound = <<>>

\* C3: whatever image lookups fail, the request ends in 200 with the weather,
\* outfit, palette and tips that the weather and the preferences determine;
\* outfit_images holds exactly the slots whose lookup succeeded; without an
\* access key it is empty and the photo search is never called.
C3_ImageFailuresNeverChangeOutcome ==
    (pc = "done" /\ weatherResult = "ok") =>
        LET r == response[1]
            o == MoodAdjust(ConditionAdjust(BaseOutfit(NewOutfit, temp),
                                            condition), mood)
        IN  /\ r.status = 200
            /\ r.body.location = location
            /\ r.body.weather = WeatherInfo(weather_data[1])
            /\ r.body.outfit = Rendered(o)
            /\ r.body.color_palette = Palette(color_pref)
            /\ r.body.style_tips = generate_style_tips(temp, condition, mood)
            /\ DOMAIN imgResult = {lookups[i] : i \in 1..Len(lookups)}
            /\ DOMAIN r.body.outfit_images
                 = {k \in DOMAIN imgResult : imgResult[k]}
            /\ ~unsplashKey =>
                 (r.body.outfit_images = EmptyDict /\ outbound = <<>>)

C3_Witness ==
    /\ Done200
    /\ unsplashKey
    /\ \E k, l \in DOMAIN imgResult : imgResult[k] /\ ~imgResult[l]
    /\ DOMAIN response[1].body.outfit_images # {}

\* C4: the temperature pass leaves the base outfit of exactly one tier: cold
\* below 50, cool from 50 and below 65, mild from 65 and below 75, warm from
\* 75 and below 85, hot from 85; each boundary belongs to the higher tier.
C4_TierBoundaries ==
    pc = "condition" =>
        /\ temp < 2 * 50 => outfit = TierOutfit("cold")
        /\ (2 * 50 <= temp /\ temp < 2 * 65) => outfit = TierOutfit("cool")
        /\ (2 * 65 <= temp /\ temp < 2 * 75) => outfit = TierOutfit("mild")
        /\ (2 * 75 <= temp /\ temp < 2 * 85) => outfit = TierOutfit("warm")
        /\ temp >= 2 * 85 => outfit = TierOutfit("hot")
        /\ Cardinality({t \in {"cold", "cool", "mild", "warm", "hot"} :
                            outfit = TierOutfit(t)}) = 1

C4_Witness ==
    /\ pc = "condition"
    /\ temp = 2 * 50
    /\ outfit.outerwear = "Light jacket or cardigan"
    /\ outfit.accessories = <<"Light scarf">>

\* the outfit at hand once the condition pass is over: the one being built,
\* and in the end the one in the response
AfterCondition == weatherResult = "ok" /\ pc \notin {"tier", "condition"}
Returned == IF pc = "done" THEN response[1].body.outfit ELSE Rendered(outfit)
TierFootwear == TierOutfit(Tier(temp)).footwear

\* C5: for every temperature and mood, Rain, Drizzle and Thunderstorm give
\* the outerwear 'Waterproof jacket or raincoat' and Snow gives 'Insulated
\* winter coat', and the footwear is then never the temperature tier's.
C5_ConditionWinsOverTier ==
    AfterCondition =>
        /\ condition \in {"Rain", "Drizzle", "Thunderstorm"} =>
             Returned.outerwear = "Waterproof jacket or raincoat"
        /\ condition = "Snow" => Returned.outerwear = "Insulated winter coat"
        /\ condition \in {"Rain", "Drizzle", "Thunderstorm", "Snow"} =>
             Returned.footwear # TierFootwear

C5_Witness ==
    /\ Done200
    /\ condition = "Snow"
    /\ Tier(temp) = "hot"
    /\ mood = "adventurous"
    /\ response[1].body.outfit.outerwear = "Insulated winter coat"

WeatherFootwear ==
    IF condition \in {"Rain", "Drizzle", "Thunderstorm"}
    THEN "Waterproof boots or shoes"
    ELSE IF condition = "Snow" THEN "Winter boots" ELSE TierFootwear

\* C6: the mood pass comes after the condition pass and wins for footwear:
\* before it the footwear is the condition's or else the tier's; after it
\* professional has 'Dress shoes or heels' and adventurous 'Hiking boots or
\* athletic shoes' under every temperature and condition, and every other
\* mood keeps the footwear it found.
C6_MoodWinsForFootwear ==
    /\ pc = "mood" => outfit.footwear = WeatherFootwear
    /\ (AfterCondition /\ pc # "mood") =>
        /\ mood = "professional" => Returned.footwear = "Dress shoes or heels"
        /\ mood = "adventurous" =>
             Returned.footwear = "Hiking boots or athletic shoes"
        /\ mood \notin {"professional", "adventurous"} =>
             Returned.footwear = WeatherFootwear

C6_Witness ==
    /\ Done200
    /\ mood = "professional"
    /\ condition = "Rain"
    /\ response[1].body.outfit.footwear = "Dress shoes or heels"

\* the tips that apply, in the fixed order
ApplicableTips ==
    (IF temp < 2 * 65 THEN <<LayerTip>> ELSE <<>>)
    \o (IF condition = "Rain" \/ condition = "Drizzle" THEN <<WaterTip>> ELSE <<>>)
    \o (IF temp > 2 * 75 THEN <<BreathTip>> ELSE <<>>)
    \o (IF mood = "professional" THEN <<PolishTip>> ELSE <<>>)

TipsReturned == IF pc = "done" THEN response[1].body.style_tips ELSE style_tips

\* C7: style_tips is the ' | '-join of exactly the applicable tips in the
\* order layering, water-resistant, breathable, minimal accessories; it is
\* the fallback string exactly when none applies.
C7_StyleTips ==
    (weatherResult = "ok" /\ pc \in {"queries", "lookup", "assemble", "done"}) =>
        /\ ApplicableTips # <<>> => TipsReturned = Join(ApplicableTips, " | ")
        /\ TipsReturned = FallbackTip <=> ApplicableTips = <<>>
        /\ (temp = 2 * 70 /\ condition = "Clear" /\ mood # "professional") =>
             TipsReturned = "Dress comfortably and confidently!"

C7_Witness ==
    /\ Done200
    /\ temp = 2 * 70
    /\ condition = "Clear"
    /\ mood = "sporty"
    /\ response[1].body.style_tips = "Dress comfortably and confidently!"

\* C8: a request with the body and the weather answer of an earlier request
\* gets the outfit, palette and tips that the earlier one got, whatever was
\* handled in between.
C8_SameRequestSameRecommendation ==
    Done200 => \A e \in seen : e.input = Input => e.rec = Rec

C8_Witness ==
    /\ Done200
    /\ ~recorded
    /\ \E e \in seen : e.input = Input /\ e.rec = Rec
    /\ Len(Rec.outfit.accessories) > Len(TierOutfit(Tier(temp)).accessories)

\* C9: the image adapter is invoked for top, bottom, footwear and the
\* complete outfit, and for outerwear unless it is 'None' or 'None needed':
\* at most 5 lookups, and 4 in the warm and hot tiers without a condition
\* override.
C9_OuterwearLookupSkipped ==
    (weatherResult = "ok" /\ pc \in {"assemble", "done"}) =>
        /\ lookups = <<"top", "bottom">>
                     \o (IF outfit.outerwear \in {"None", "None needed"}
                         THEN <<>> ELSE <<"outerwear">>)
                     \o <<"footwear", "outfit_complete">>
        /\ Len(lookups) <= 5
        /\ (Tier(temp) \in {"warm", "hot"}
             /\ condition \notin {"Rain", "Drizzle", "Thunderstorm", "Snow"})
            => Len(lookups) = 4

ConditionItems ==
    IF condition \in {"Rain", "Drizzle", "Thunderstorm"} THEN <<"Umbrella">>
    ELSE IF condition = "Snow" THEN <<"Warm hat", "Gloves", "Scarf">>
    ELSE <<>>

MoodItems ==
    IF mood = "adventurous" THEN <<"Backpack">>
    ELSE IF mood = "cozy" THEN <<"Comfort scarf">>
    ELSE <<>>

TierItems == TierOutfit(Tier(temp)).accessories

\* C10: the accessories are the tier's, in their order, then the condition's
\* items, then the mood's item; nothing added is removed or moved.  At 30
\* degrees with Snow and mood casual the result is Insulated winter coat,
\* Winter boots and Scarf, Gloves, Beanie, Warm hat, Gloves, Scarf.
C10_AccessoriesOrder ==
    /\ pc = "condition" => outfit.accessories = TierItems
    /\ pc = "mood" => outfit.accessories = TierItems \o ConditionItems
    /\ (AfterCondition /\ pc # "mood") =>
        /\ Returned.accessories = TierItems \o ConditionItems \o MoodItems
        /\ (temp = 2 * 30 /\ condition = "Snow" /\ mood = "casual") =>
            /\ Returned.outerwear = "Insulated winter coat"
            /\ Returned.footwear = "Winter boots"
            /\ Returned.accessories =
                 <<"Scarf", "Gloves", "Beanie", "Warm hat", "Gloves", "Scarf">>

C10_Witness ==
    /\ Done200
    /\ temp = 2 * 30
    /\ condition = "Snow"
    /\ mood = "casual"
    /\ response[1].body.outfit.accessories =
         <<"Scarf", "Gloves", "Beanie", "Warm hat", "Gloves", "Scarf">>

====
